---- MODULE Spec2Model ----
(***************************************************************************)
(* LazyFox CLI: `lazyfox init` (src/cli/app.py, src/cli/commands/init.py). *)
(*                                                                         *)
(* One invocation of main() is modelled as a sequential process.  Every    *)
(* network call and every stage of _download_and_extract is one step, so   *)
(* that the order of the calls and the lifetime of the temporary           *)
(* directory are observable.  An exception raised inside a step is         *)
(* propagated within that step up to run(), whose two try/except blocks    *)
(* catch RuntimeError only.                                                *)
(*                                                                         *)
(* Strings that the code searches or builds are sequences of tokens:       *)
(* "HTTP 500: upstream HTTP 404" is <<"HTTP","500",":","upstream","HTTP",  *)
(* "404">>.  URLs are token sequences as well; <<>> is a missing or empty  *)
(* URL, "" a missing or empty string.                                      *)
(*                                                                         *)
(* Resolution and unpacking meet only in the URL that is handed over, so   *)
(* the inputs are enumerated in two families (focus): "resolve" draws the  *)
(* versions and the metadata answers in full and unpacks one plain         *)
(* archive into an empty destination; "unpack" resolves by the latest      *)
(* release and draws the archives and the destinations in full.            *)
(***************************************************************************)
EXTENDS Integers, Sequences, FiniteSets, TLC

VARIABLES
    pc,         \* position of the invocation
    focus,      \* which inputs are enumerated in full: "resolve" or "unpack"
    version,    \* run: version = args.version or "latest"
    force,      \* args.force
    calls,      \* history: metadata requests made, with the answer of each
    source,     \* descriptor returned by _resolve_source
    err,        \* the exception that ended the invocation, if any
    result,     \* "running", "exit0", "exit1" (returned by main) or "uncaught"
    tmp,        \* temporary directory: "none", "exists", "deleted"
    fetched,    \* history: URLs handed to _download_file
    zip,        \* the file source.zip as downloaded
    extracted,  \* the tree extractall left in the temporary directory
    root_name,  \* _download_and_extract: root_name
    dest,       \* destination directory, relative path -> entry
    dest0,      \* history: the destination as the invocation found it
    conflicts,  \* _copy_tree: conflicts
    copied      \* history: _copy_tree was called

vars == <<pc, focus, version, force, calls, source, err, result, tmp, fetched,
          zip, extracted, root_name, dest, dest0, conflicts, copied>>

-----------------------------------------------------------------------------
(* Bounds of the enumerated inputs *)

MaxTags == 2        \* entries in one answer of the tags listing
MaxEntries == 3     \* entries in a downloaded archive

Min(a, b) == IF a < b THEN a ELSE b

SeqsUpTo(S, n) == UNION {[1..k -> S] : k \in 0..n}

-----------------------------------------------------------------------------
(* Exceptions *)

Exc(type, msg) == [type |-> type, msg |-> msg, preview |-> <<>>, more |-> 0]

NoExc == Exc("none", <<>>)

RuntimeError(msg) == Exc("RuntimeError", msg)

\* run: `except RuntimeError as exc` around _resolve_source and around
\* _download_and_extract; any other exception type leaves run and main.
Caught(exc) == exc.type = "RuntimeError"

-----------------------------------------------------------------------------
(* Remote answers *)

NoJson ==
    [shape |-> "none", zipball_url |-> <<>>, tag_name |-> "",
     default_branch |-> "", items |-> <<>>]

JsonDict(url, tag, branch) ==
    [shape |-> "dict", zipball_url |-> url, tag_name |-> tag,
     default_branch |-> branch, items |-> <<>>]

JsonList(items) ==
    [shape |-> "list", zipball_url |-> <<>>, tag_name |-> "",
     default_branch |-> "", items |-> items]

JsonAnswer(json) == [kind |-> "json", code |-> "", body |-> <<>>, json |-> json]

HttpError(code, body) == [kind |-> "http", code |-> code, body |-> body, json |-> NoJson]

UrlError(reason) == [kind |-> "url", code |-> "", body |-> reason, json |-> NoJson]

\* a 200 answer whose body is not JSON: json.load raises json.JSONDecodeError
NotJson == [kind |-> "badjson", code |-> "", body |-> <<>>, json |-> NoJson]

ErrorBodies == {<<"Not", "Found">>, <<"upstream", "HTTP", "404">>}

ApiErrors ==
    {HttpError(c, b) : c \in {"404", "500"}, b \in ErrorBodies}
        \cup {UrlError(<<"timed", "out">>), NotJson}

ReleaseUrl == <<"api", "zipball", "release">>

TagUrl == <<"api", "zipball", "tag">>

ReleaseAnswers ==
    IF focus = "unpack"
    THEN {JsonAnswer(JsonDict(ReleaseUrl, "v1", ""))}
    ELSE {JsonAnswer(JsonDict(u, t, "")) : u \in {<<>>, ReleaseUrl}, t \in {"", "v1"}}
            \cup {JsonAnswer(JsonList(<<>>))} \cup ApiErrors

TagItems == [name : {"", "v1", "v2"}, zipball_url : {<<>>, TagUrl}]

TagsAnswers(per_page) ==
    {JsonAnswer(JsonList(items)) : items \in SeqsUpTo(TagItems, Min(per_page, MaxTags))}
        \cup {JsonAnswer(JsonDict(<<>>, "", ""))} \cup ApiErrors

RepoAnswers ==
    {JsonAnswer(JsonDict(<<>>, "", b)) : b \in {"", "main"}}
        \cup {JsonAnswer(JsonList(<<>>))} \cup ApiErrors

-----------------------------------------------------------------------------
(* _api_get: the answer of the remote end as the caller sees it *)

ApiOk(val) == [exc |-> NoExc, val |-> val]

ApiRaise(exc) == [exc |-> exc, val |-> NoJson]

_api_get(answer) ==
    CASE answer.kind = "json" -> ApiOk(answer.json)
      [] answer.kind = "http" ->
            ApiRaise(RuntimeError(<<"HTTP", answer.code, ":">> \o answer.body))
      [] answer.kind = "url" -> ApiRaise(RuntimeError(answer.body))
      [] OTHER -> ApiRaise(Exc("JSONDecodeError", <<>>))

\* `"HTTP 404" in str(exc)`: a substring search over the whole message
HasHttp404(msg) ==
    \E i \in 1..(Len(msg) - 1) : msg[i] = "HTTP" /\ msg[i + 1] = "404"

-----------------------------------------------------------------------------
(* _resolve_source, one operator for each request it makes *)

NoSource == [source_type |-> <<>>, tag_name |-> "", zipball_url |-> <<>>]

Return(src) == [kind |-> "return", source |-> src, exc |-> NoExc]

FallThrough == [kind |-> "next", source |-> NoSource, exc |-> NoExc]

Raise(exc) == [kind |-> "raise", source |-> NoSource, exc |-> exc]

OrElse(x, default) == IF x = "" THEN default ELSE x

\* variant: a release is taken for usable by its tag name
ReleaseUsableByTag(release) == release.shape = "dict" /\ release.tag_name # ""

ReleaseUsable(release) == release.shape = "dict" /\ release.zipball_url # <<>>

\* the try block around the release lookup, for "latest" and for a named version
resolve_release(v, got) ==
    IF got.exc.type = "none"
    THEN IF ReleaseUsable(got.val)
         THEN Return([source_type |-> IF v = "latest" THEN <<"latest release">>
                                                       ELSE <<"release tag">>,
                      tag_name |-> OrElse(got.val.tag_name,
                                          IF v = "latest" THEN "latest" ELSE v),
                      zipball_url |-> got.val.zipball_url])
         ELSE FallThrough
    ELSE IF got.exc.type = "RuntimeError" /\ HasHttp404(got.exc.msg)
         THEN FallThrough
         ELSE Raise(got.exc)

VersionNotFound(v) == RuntimeError(<<"version", "not", "found", v>>)

RECURSIVE FindTag(_, _)
FindTag(items, v) ==
    IF items = <<>> THEN <<>>
    ELSE IF Head(items).name = v THEN <<Head(items)>>
    ELSE FindTag(Tail(items), v)

\* variant: the listing is tested for the wrong JSON type
TagsUsableIfDict(tags) == tags.shape = "dict" /\ tags.items # <<>>

\* `isinstance(tags, list) and tags`
TagsUsable(tags) == tags.shape = "list" /\ tags.items # <<>>

\* variant: a named version falls back to the default branch as "latest" does
NoMatchFallsBack(v) == FallThrough

\* a named version with neither a release nor a tag: the final raise
NoMatch(v) == Raise(VersionNotFound(v))

\* the tags listing: tags[0] for "latest", the first exact match otherwise
resolve_tags(v, got) ==
    IF got.exc.type # "none" THEN Raise(got.exc)
    ELSE IF v = "latest"
    THEN IF TagsUsable(got.val)
         THEN Return([source_type |-> <<"latest tag">>,
                      tag_name |-> OrElse(got.val.items[1].name, "latest-tag"),
                      zipball_url |-> got.val.items[1].zipball_url])
         ELSE FallThrough
    ELSE LET found == IF got.val.shape = "list" THEN FindTag(got.val.items, v)
                                               ELSE <<>>
         IN  IF found # <<>>
             THEN Return([source_type |-> <<"git tag">>,
                          tag_name |-> v,
                          zipball_url |-> found[1].zipball_url])
             ELSE NoMatch(v)

BranchUrl(branch) == <<"github", "archive", "refs", "heads", branch, ".zip">>

_default_branch_source(got) ==
    IF got.exc.type # "none" THEN Raise(got.exc)
    ELSE IF got.val.shape # "dict" THEN Raise(RuntimeError(<<"bad", "repository", "info">>))
    ELSE IF got.val.default_branch = "" THEN Raise(RuntimeError(<<"no", "default", "branch">>))
    ELSE Return([source_type |-> <<"default branch", got.val.default_branch>>,
                 tag_name |-> got.val.default_branch,
                 zipball_url |-> BranchUrl(got.val.default_branch)])

-----------------------------------------------------------------------------
(* Archives.  An entry name is its "/"-separated segments; dir tells        *)
(* whether the name ends in "/" ("proj/" is <<"proj">> with dir = TRUE).    *)

Name(segs, dir) == [segs |-> segs, dir |-> dir]

EntryNames ==
    {Name(<<>>, FALSE),                   \* ""
     Name(<<"__MACOSX", "x">>, FALSE),    \* "__MACOSX/x"
     Name(<<"proj">>, TRUE),              \* "proj/"
     Name(<<"proj", "a">>, FALSE),        \* "proj/a"
     Name(<<"proj", "b">>, FALSE),        \* "proj/b"
     Name(<<"proj", "d">>, TRUE),         \* "proj/d/"
     Name(<<"README">>, FALSE),           \* "README"
     Name(<<"p:", "a">>, FALSE)}          \* "p:/a"

ZipFile(names) == [iszip |-> TRUE, names |-> names]

\* a downloaded body that is not a zip archive
NotZip == [iszip |-> FALSE, names |-> <<>>]

Payloads ==
    IF focus = "unpack"
    THEN {ZipFile(names) : names \in SeqsUpTo(EntryNames, MaxEntries)} \cup {NotZip}
    ELSE {ZipFile(<<Name(<<"proj">>, TRUE), Name(<<"proj", "a">>, FALSE)>>), NotZip}

Downloaded(payload) == [kind |-> "ok", code |-> "", body |-> <<>>, payload |-> payload]

DownloadHttpError(code, body) ==
    [kind |-> "http", code |-> code, body |-> body, payload |-> NotZip]

DownloadUrlError(reason) ==
    [kind |-> "url", code |-> "", body |-> reason, payload |-> NotZip]

DownloadAnswers ==
    {Downloaded(p) : p \in Payloads}
        \cup {DownloadHttpError("404", <<"Not", "Found">>),
              DownloadUrlError(<<"timed", "out">>)}

_download_file(answer) ==
    CASE answer.kind = "ok" -> NoExc
      [] answer.kind = "http" ->
            RuntimeError(<<"download", "failed", "HTTP", answer.code, ":">> \o answer.body)
      [] OTHER -> RuntimeError(<<"download", "failed", ":">> \o answer.body)

\* zipfile.ZipFile(zip_path, "r")
OpenZip(file) == IF file.iszip THEN NoExc ELSE Exc("BadZipFile", <<>>)

\* name.startswith("__MACOSX/")
StartsWithMacosx(n) ==
    /\ Len(n.segs) >= 1
    /\ n.segs[1] = "__MACOSX"
    /\ (Len(n.segs) > 1 \/ n.dir)

\* `name and not name.startswith("__MACOSX/")`
Kept(n) == n.segs # <<>> /\ ~StartsWithMacosx(n)

_detect_root_folder(namelist) ==
    LET names == SelectSeq(namelist, Kept)
    IN  IF names = <<>>
        THEN [exc |-> RuntimeError(<<"archive", "empty">>), root |-> ""]
        ELSE [exc |-> NoExc, root |-> names[1].segs[1]]

-----------------------------------------------------------------------------
(* The temporary directory after archive.extractall(tmp_dir) *)

EmptyTree == [exc |-> NoExc, files |-> {}, dirs |-> {}]

\* zipfile writes a member under the name the platform accepts: a character
\* that may not occur in a file name (":" on Windows) is replaced by "_"
Sanitize(segs) == [i \in 1..Len(segs) |-> IF segs[i] = "p:" THEN "p_" ELSE segs[i]]

Prefixes(p) == {SubSeq(p, 1, k) : k \in 1..Len(p)}

ExtractMember(tree, n) ==
    LET p == Sanitize(n.segs)
        above == Prefixes(p) \ {p}
    IN  IF tree.exc.type # "none" THEN tree
        ELSE IF n.dir
        THEN IF Prefixes(p) \cap tree.files # {}
             THEN [tree EXCEPT !.exc = Exc("FileExistsError", <<>>)]
             ELSE [tree EXCEPT !.dirs = @ \cup Prefixes(p)]
        ELSE IF p = <<>> \/ p \in tree.dirs
             THEN [tree EXCEPT !.exc = Exc("IsADirectoryError", <<>>)]
        ELSE IF above \cap tree.files # {}
             THEN [tree EXCEPT !.exc = Exc("NotADirectoryError", <<>>)]
        ELSE [tree EXCEPT !.dirs = @ \cup above, !.files = @ \cup {p}]

RECURSIVE extractall(_, _)
extractall(tree, namelist) ==
    IF namelist = <<>> THEN tree
    ELSE extractall(ExtractMember(tree, Head(namelist)), Tail(namelist))

\* source_root = Path(tmp_dir) / root_name; source_root.exists()
Exists(tree, root) == <<root>> \in tree.files \cup tree.dirs

\* source_root.rglob("*"): everything below source_root when it is a
\* directory, nothing when it is a file
Below(tree, root) ==
    IF <<root>> \in tree.dirs
    THEN {[rel |-> Tail(p), is_dir |-> p \in tree.dirs] :
              p \in {q \in tree.files \cup tree.dirs : Len(q) > 1 /\ q[1] = root}}
    ELSE {}

IsPrefix(p, q) == Len(p) <= Len(q) /\ SubSeq(q, 1, Len(p)) = p

\* the orders in which rglob may yield: a directory before what it holds,
\* otherwise the order of the directory listing, which is arbitrary
Walks(S) ==
    {w \in [1..Cardinality(S) -> S] :
        /\ \A i, j \in 1..Cardinality(S) : i # j => w[i] # w[j]
        /\ \A i, j \in 1..Cardinality(S) : i < j => ~IsPrefix(w[j].rel, w[i].rel)}

-----------------------------------------------------------------------------
(* The destination directory *)

DestPaths == {<<"a">>, <<"b">>, <<"d">>}

Absent == [kind |-> "none", data |-> "", inner |-> ""]

OldFile == [kind |-> "file", data |-> "old", inner |-> ""]

\* an existing directory; inner is the content of the file of the same name
\* inside it, "" when there is none (the enumerated destinations hold no
\* directory of that name inside it)
OldDir == [kind |-> "dir", data |-> "", inner |-> ""]

Destinations ==
    IF focus = "unpack" THEN [DestPaths -> {Absent, OldFile, OldDir}]
    ELSE {[p \in DestPaths |-> Absent]}

PreviewLimit == 20

ConflictError(list) ==
    [type |-> "RuntimeError", msg |-> <<"conflicting", "files">>,
     preview |-> SubSeq(list, 1, Min(PreviewLimit, Len(list))),
     more |-> IF Len(list) <= PreviewLimit THEN 0 ELSE Len(list) - PreviewLimit]

\* target.mkdir(parents=True, exist_ok=True) for a directory of the source
MkdirTarget(st, rel) ==
    IF st.dest[rel].kind = "file"
    THEN [st EXCEPT !.exc = Exc("FileExistsError", <<>>)]
    ELSE [st EXCEPT !.dest[rel].kind = "dir"]

\* shutil.copy2(source, target): a target that is a directory receives the
\* file under the source's base name
Copy2(st, rel) ==
    IF st.dest[rel].kind = "dir"
    THEN [st EXCEPT !.dest[rel].inner = "new"]
    ELSE [st EXCEPT !.dest[rel] = [kind |-> "file", data |-> "new", inner |-> ""]]

\* one iteration of the loop of _copy_tree
CopyEntry(st, e, forced) ==
    IF st.exc.type # "none" THEN st
    ELSE IF e.is_dir THEN MkdirTarget(st, e.rel)
    ELSE IF st.dest[e.rel].kind # "none" /\ ~forced
         THEN [st EXCEPT !.conflicts = Append(@, e.rel)]
    ELSE Copy2(st, e.rel)

RECURSIVE CopyLoop(_, _, _)
CopyLoop(st, walk, forced) ==
    IF walk = <<>> THEN st
    ELSE CopyLoop(CopyEntry(st, Head(walk), forced), Tail(walk), forced)

_copy_tree(walk, d, forced) ==
    LET st == CopyLoop([exc |-> NoExc, dest |-> d, conflicts |-> <<>>], walk, forced)
    IN  IF st.exc.type = "none" /\ st.conflicts # <<>>
        THEN [st EXCEPT !.exc = ConflictError(st.conflicts)]
        ELSE st

-----------------------------------------------------------------------------
(* The invocation *)

Versions == IF focus = "unpack" THEN {""} ELSE {"", "latest", "v1", "v3"}

Init ==
    /\ pc = "main"
    /\ focus \in {"resolve", "unpack"}
    /\ version = ""
    /\ force = FALSE
    /\ calls = <<>>
    /\ source = NoSource
    /\ err = NoExc
    /\ result = "running"
    /\ tmp = "none"
    /\ fetched = <<>>
    /\ zip = NotZip
    /\ extracted = EmptyTree
    /\ root_name = ""
    /\ dest \in Destinations
    /\ dest0 = dest
    /\ conflicts = <<>>
    /\ copied = FALSE

\* an exception leaves run: caught and turned into 1, or not caught
RunRaises(exc) ==
    /\ pc' = "done"
    /\ err' = exc
    /\ result' = IF Caught(exc) THEN "exit1" ELSE "uncaught"

\* variant: the directory is removed on the normal path only
TmpOnExitLeaky(exc) == IF exc.type = "none" THEN "deleted" ELSE "exists"

\* tempfile.TemporaryDirectory: state of the directory once the with block
\* is left, normally (exc is NoExc) or by an exception
TmpOnExit(exc) == "deleted"

\* main without a subcommand: handler is None
PrintHelp ==
    /\ pc = "main"
    /\ pc' = "done"
    /\ result' = "exit0"
    /\ UNCHANGED <<focus, version, force, calls, source, err, tmp, fetched, zip,
                   extracted, root_name, dest, dest0, conflicts, copied>>

\* main with `init`, and run up to the call of _resolve_source
RunStart ==
    /\ pc = "main"
    /\ \E v \in Versions, f \in BOOLEAN :
          /\ version' = OrElse(v, "latest")
          /\ force' = f
    /\ pc' = "release"
    /\ UNCHANGED <<focus, calls, source, err, result, tmp, fetched, zip,
                   extracted, root_name, dest, dest0, conflicts, copied>>

\* what a step of _resolve_source leads to
Resolved(out, next) ==
    CASE out.kind = "return" ->
            /\ source' = out.source
            /\ pc' = "resolved"
            /\ UNCHANGED <<err, result>>
      [] out.kind = "next" ->
            /\ pc' = next
            /\ UNCHANGED <<source, err, result>>
      [] OTHER ->
            /\ RunRaises(out.exc)
            /\ UNCHANGED source

Endpoint(step) ==
    CASE step = "release" -> IF version = "latest" THEN "releases/latest"
                                                   ELSE "releases/tags"
      [] step = "tags" -> IF version = "latest" THEN "tags?per_page=1"
                                                ELSE "tags?per_page=100"
      [] OTHER -> "repo"

LatestPerPage == 1

VersionPerPage == 100

ResolveRelease ==
    /\ pc = "release"
    /\ \E answer \in ReleaseAnswers :
          /\ calls' = Append(calls, [ep |-> Endpoint("release"), answer |-> answer])
          /\ Resolved(resolve_release(version, _api_get(answer)), "tags")
    /\ UNCHANGED <<focus, version, force, tmp, fetched, zip, extracted,
                   root_name, dest, dest0, conflicts, copied>>

ResolveTags ==
    /\ pc = "tags"
    /\ \E answer \in TagsAnswers(IF version = "latest" THEN LatestPerPage
                                                       ELSE VersionPerPage) :
          /\ calls' = Append(calls, [ep |-> Endpoint("tags"), answer |-> answer])
          /\ Resolved(resolve_tags(version, _api_get(answer)), "repo")
    /\ UNCHANGED <<focus, version, force, tmp, fetched, zip, extracted,
                   root_name, dest, dest0, conflicts, copied>>

ResolveDefaultBranch ==
    /\ pc = "repo"
    /\ \E answer \in RepoAnswers :
          /\ calls' = Append(calls, [ep |-> Endpoint("repo"), answer |-> answer])
          /\ Resolved(_default_branch_source(_api_get(answer)), "repo")
    /\ UNCHANGED <<focus, version, force, tmp, fetched, zip, extracted,
                   root_name, dest, dest0, conflicts, copied>>

\* variant: the guard tests the tag name, which always has a default
MissingTag(src) == src.tag_name = ""

\* run: `if not zip_url`
MissingUrl(src) == src.zipball_url = <<>>

CheckSource ==
    /\ pc = "resolved"
    /\ IF MissingUrl(source)
       THEN pc' = "done" /\ result' = "exit1"
       ELSE pc' = "tmpdir" /\ UNCHANGED result
    /\ UNCHANGED <<focus, version, force, calls, source, err, tmp, fetched, zip,
                   extracted, root_name, dest, dest0, conflicts, copied>>

\* _download_and_extract: entering the with block
EnterTmp ==
    /\ pc = "tmpdir"
    /\ tmp' = "exists"
    /\ pc' = "download"
    /\ UNCHANGED <<focus, version, force, calls, source, err, result, fetched,
                   zip, extracted, root_name, dest, dest0, conflicts, copied>>

Download ==
    /\ pc = "download"
    /\ fetched' = Append(fetched, source.zipball_url)
    /\ \E answer \in DownloadAnswers :
          LET exc == _download_file(answer)
          IN  IF exc.type = "none"
              THEN /\ zip' = answer.payload
                   /\ pc' = "extract"
                   /\ UNCHANGED <<err, result, tmp>>
              ELSE /\ tmp' = TmpOnExit(exc)
                   /\ RunRaises(exc)
                   /\ UNCHANGED zip
    /\ UNCHANGED <<focus, version, force, calls, source, extracted, root_name,
                   dest, dest0, conflicts, copied>>

\* opening the archive, _detect_root_folder, extractall and the check of
\* source_root
Unpack(file) ==
    LET opened == OpenZip(file)
        root == _detect_root_folder(file.names)
        tree == extractall(EmptyTree, file.names)
    IN  IF opened.type # "none" THEN [exc |-> opened, root |-> "", tree |-> EmptyTree]
        ELSE IF root.exc.type # "none"
        THEN [exc |-> root.exc, root |-> "", tree |-> EmptyTree]
        ELSE IF tree.exc.type # "none"
        THEN [exc |-> tree.exc, root |-> root.root, tree |-> tree]
        ELSE IF ~Exists(tree, root.root)
        THEN [exc |-> RuntimeError(<<"source", "directory", "not", "found">>),
              root |-> root.root, tree |-> tree]
        ELSE [exc |-> NoExc, root |-> root.root, tree |-> tree]

Extract ==
    /\ pc = "extract"
    /\ LET u == Unpack(zip)
       IN  /\ root_name' = u.root
           /\ extracted' = u.tree
           /\ IF u.exc.type = "none"
              THEN pc' = "copy" /\ UNCHANGED <<err, result, tmp>>
              ELSE tmp' = TmpOnExit(u.exc) /\ RunRaises(u.exc)
    /\ UNCHANGED <<focus, version, force, calls, source, fetched, zip, dest,
                   dest0, conflicts, copied>>

\* _copy_tree, leaving the with block, and the end of run
Copy ==
    /\ pc = "copy"
    /\ \E walk \in Walks(Below(extracted, root_name)) :
          LET st == _copy_tree(walk, dest, force)
          IN  /\ dest' = st.dest
              /\ conflicts' = st.conflicts
              /\ copied' = TRUE
              /\ tmp' = TmpOnExit(st.exc)
              /\ IF st.exc.type = "none"
                 THEN pc' = "done" /\ result' = "exit0" /\ UNCHANGED err
                 ELSE RunRaises(st.exc)
    /\ UNCHANGED <<focus, version, force, calls, source, fetched, zip,
                   extracted, root_name, dest0>>

Next ==
    \/ PrintHelp
    \/ RunStart
    \/ ResolveRelease
    \/ ResolveTags
    \/ ResolveDefaultBranch
    \/ CheckSource
    \/ EnterTmp
    \/ Download
    \/ Extract
    \/ Copy

Spec == Init /\ [][Next]_vars

-----------------------------------------------------------------------------
(* Properties *)

Done == pc = "done"

IsJson(c) == c.answer.kind = "json"

Usable(c) == IsJson(c) /\ c.answer.json.shape = "dict" /\ c.answer.json.zipball_url # <<>>

HasEntries(c) == IsJson(c) /\ c.answer.json.shape = "list" /\ c.answer.json.items # <<>>

NotFound(c) == c.answer.kind = "http" /\ c.answer.code = "404"

Endpoints == [i \in 1..Len(calls) |-> calls[i].ep]

\* C1: for "latest", when the latest-release endpoint answers an object with
\* a non-empty zipball_url, the descriptor is the "latest release" with that
\* URL, and neither the tags listing nor the repository info is requested.
C1_LatestReleaseWins ==
    (version = "latest" /\ calls # <<>> /\ Usable(calls[1]))
        => /\ Endpoints = <<"releases/latest">>
           /\ source.source_type = <<"latest release">>
           /\ source.zipball_url = calls[1].answer.json.zipball_url

C1_Witness ==
    /\ Done
    /\ version = "latest"
    /\ calls # <<>>
    /\ Usable(calls[1])
    /\ result = "exit0"

\* C2: for "latest", after a not-found answer of the latest-release endpoint
\* the requests are made in the order latest release, tags listing (one
\* entry), repository info; the repository info is requested only after a
\* listing without entry; the first step that succeeds gives the descriptor:
\* the first tag of a non-empty listing, otherwise the default branch
\* archive URL.
C2_FallbackOrder ==
    (version = "latest" /\ calls # <<>> /\ NotFound(calls[1]))
        => /\ Endpoints \in {<<"releases/latest">>,
                             <<"releases/latest", "tags?per_page=1">>,
                             <<"releases/latest", "tags?per_page=1", "repo">>}
           /\ pc # "tags" => Len(calls) >= 2
           /\ pc = "tags" => Len(calls) = 1
           /\ Len(calls) = 3 => IsJson(calls[2]) /\ ~HasEntries(calls[2])
           /\ (Len(calls) = 2 /\ IsJson(calls[2]) /\ ~HasEntries(calls[2])) => pc = "repo"
           /\ (Len(calls) >= 2 /\ HasEntries(calls[2]))
                 => /\ Len(calls) = 2
                    /\ source.source_type = <<"latest tag">>
                    /\ source.zipball_url = calls[2].answer.json.items[1].zipball_url
           /\ (Len(calls) = 3 /\ source # NoSource)
                 => /\ source.source_type =
                          <<"default branch", calls[3].answer.json.default_branch>>
                    /\ source.zipball_url =
                          BranchUrl(calls[3].answer.json.default_branch)

C2_Witness ==
    /\ Done
    /\ version = "latest"
    /\ Len(calls) = 3
    /\ NotFound(calls[1])
    /\ source.zipball_url = BranchUrl("main")
    /\ result = "exit0"

NamesListed(c) ==
    IF c.answer.json.shape = "list"
    THEN {c.answer.json.items[i].name : i \in 1..Len(c.answer.json.items)}
    ELSE {}

\* C3: for a named version that matches no release and no tag name of the
\* listed page, resolution fails with "version not found", no request
\* follows the tags listing, and run returns 1 without a download.
C3_VersionNotFound ==
    (/\ version # "latest"
     /\ Len(calls) >= 2
     /\ ~Usable(calls[1])
     /\ IsJson(calls[2])
     /\ version \notin NamesListed(calls[2]))
        => /\ Endpoints = <<"releases/tags", "tags?per_page=100">>
           /\ Done
           /\ err = VersionNotFound(version)
           /\ result = "exit1"
           /\ tmp = "none"
           /\ fetched = <<>>
           /\ dest = dest0

C3_Witness ==
    /\ Done
    /\ version = "v3"
    /\ Len(calls) = 2
    /\ NotFound(calls[1])
    /\ Len(calls[2].answer.json.items) = 2
    /\ err = VersionNotFound("v3")

\* C4: an HTTP error of a metadata endpoint whose status is not 404 ends the
\* resolution at once with that error, no later step being attempted; of all
\* error answers only a 404 of the release lookup falls through.
C4_OnlyNotFoundFallsThrough ==
    \A i \in 1..Len(calls) :
        (/\ calls[i].answer.kind \in {"http", "url"}
         /\ ~(i = 1 /\ NotFound(calls[i])))
            => /\ i = Len(calls)
               /\ Done
               /\ err = _api_get(calls[i].answer).exc
               /\ result = "exit1"

SourceFiles == {e \in Below(extracted, root_name) : ~e.is_dir}

NewFile == [kind |-> "file", data |-> "new", inner |-> ""]

Range(f) == {f[i] : i \in DOMAIN f}

\* C5: without force, when some source files already exist in the
\* destination, the walk is completed before the failure: every source file
\* without conflict is written, every conflicting destination entry is left
\* as it was, the failure reports exactly the conflicting relative paths, and
\* the exit code is 1.
C5_ConflictsReportedAfterFullWalk ==
    (/\ copied
     /\ ~force
     /\ \E e \in SourceFiles : dest0[e.rel].kind # "none")
        => /\ \A e \in SourceFiles :
                 IF dest0[e.rel].kind = "none" THEN dest[e.rel] = NewFile
                                               ELSE dest[e.rel] = dest0[e.rel]
           /\ Range(err.preview) = {e.rel : e \in {f \in SourceFiles : dest0[f.rel].kind # "none"}}
           /\ Len(err.preview) = Cardinality(Range(err.preview))
           /\ err.more = 0
           /\ result = "exit1"

\* C6: with force, when some source paths already exist in the destination,
\* every conflicting file is overwritten with the source content, no
\* conflict is recorded, and the invocation exits 0.
C6_ForceOverwrites ==
    (/\ copied
     /\ force
     /\ \E e \in Below(extracted, root_name) : dest0[e.rel].kind # "none")
        => /\ \A e \in SourceFiles : dest0[e.rel].kind = "file" => dest[e.rel] = NewFile
           /\ conflicts = <<>>
           /\ result = "exit0"

Failed == err.type # "none" \/ (source # NoSource /\ MissingUrl(source))

\* C7: every invocation ends with an exit code, 0 on success or bare help
\* and 1 on every resolution, download, extraction or conflict failure; no
\* failure leaves run as an unhandled exception.
C7_EveryFailureReturnsOne ==
    Done => result = IF Failed THEN "exit1" ELSE "exit0"

\* C8: once the operation is over the temporary directory no longer exists,
\* after a successful copy, a download failure, an extraction failure and a
\* conflict failure alike.
C8_TmpRemoved ==
    /\ Done => tmp \in {"none", "deleted"}
    /\ (Done /\ fetched # <<>>) => tmp = "deleted"
    /\ tmp = "exists" => pc \in {"download", "extract", "copy"}

C8_Witness ==
    /\ Done
    /\ tmp = "deleted"
    /\ conflicts # <<>>
    /\ result = "exit1"

KeptNames == SelectSeq(zip.names, Kept)

\* C9: extraction fails, nothing being copied and the exit code being 1,
\* whenever the archive has no entry besides metadata or the first segment
\* of its first such entry is no directory after extraction, a plain
\* top-level file included.  (Stated for the invocations that end without an
\* unhandled exception.)
C9_RootMustBeDirectory ==
    (/\ Done
     /\ zip.iszip
     /\ result # "uncaught"
     /\ \/ KeptNames = <<>>
        \/ <<KeptNames[1].segs[1]>> \notin extracted.dirs)
        => /\ result = "exit1"
           /\ ~copied
           /\ dest = dest0

\* C10: a download is attempted only with a non-empty URL: when the
\* descriptor has no zipball_url, run returns 1 without a temporary
\* directory, without a download and without a write to the destination.
C10_NoUrlNoDownload ==
    /\ \A i \in 1..Len(fetched) : fetched[i] # <<>>
    /\ (source # NoSource /\ MissingUrl(source))
          => /\ pc \in {"resolved", "done"}
             /\ Done => result = "exit1"
             /\ tmp = "none"
             /\ fetched = <<>>
             /\ dest = dest0

C10_Witness ==
    /\ Done
    /\ source.source_type \in {<<"latest tag">>, <<"git tag">>}
    /\ MissingUrl(source)
    /\ result = "exit1"

====
